---- MODULE Spec2Model ----
(***************************************************************************)
(* Model of pkg/webhook/patch.go of the spark-on-k8s-operator: the         *)
(* derivation of the RFC 6902 patch that the mutating admission webhook    *)
(* applies to a Spark driver or executor pod.                              *)
(*                                                                         *)
(* Go values are modelled as follows.  A struct is a record with the Go    *)
(* field names.  A slice is a sequence.  A nil pointer is the record Nil   *)
(* and a non-nil pointer is the record it points to (a *string is          *)
(* [ptr |-> s]).  A JSON array value of a patch operation is the record    *)
(* [array |-> <<...>>], so that an array and a bare element are told       *)
(* apart by their shape.  Go indices are 0-based; sequences are 1-based.   *)
(***************************************************************************)
EXTENDS Integers, Sequences, FiniteSets, TLC

VARIABLES pod, app, pc, patchOps

vars == <<pod, app, pc, patchOps>>

----------------------------------------------------------------------------
(* Constants of patch.go and of the packages it imports.                   *)

sparkDriverContainerName == "spark-kubernetes-driver"
sparkExecutorContainerName == "executor"
maxNameLength == 63

SparkConfigMapVolumeName == "spark-configmap-volume"
DefaultSparkConfDir == "/etc/spark/conf"
SparkConfDirEnvVar == "SPARK_CONF_DIR"
HadoopConfigMapVolumeName == "hadoop-configmap-volume"
DefaultHadoopConfDir == "/etc/hadoop/conf"
HadoopConfDirEnvVar == "HADOOP_CONF_DIR"

Nil == [nil |-> TRUE]

Array(s) == [array |-> s]

(* The value a Go runtime panic leaves in place of a result.               *)
Panic == [panic |-> "index out of range"]

Panicked(ops) == \E k \in 1..Len(ops) : ops[k] = Panic

----------------------------------------------------------------------------
(* Collaborators of package util.                                          *)

IsDriverPod(p) == p.Role = "driver"

IsExecutorPod(p) == p.Role = "executor"

GetOwnerReference(a) ==
    [Kind |-> "SparkApplication", Name |-> a.Name, Controller |-> TRUE]

----------------------------------------------------------------------------
(* patch.go                                                                *)

patchOperation(op, path, value) == [Op |-> op, Path |-> path, Value |-> value]

addOwnerReference(p, a) ==
    LET ownerReference == GetOwnerReference(a)
        path == "/metadata/ownerReferences"
    IN  IF Len(p.OwnerReferences) = 0
        THEN patchOperation("add", path, Array(<<ownerReference>>))
        ELSE patchOperation("add", path \o "/-", ownerReference)

(* addVolume deciding "append" whatever the pod holds.                     *)
addVolumeAlwaysAppend(p, volume) ==
    patchOperation("add", "/spec/volumes" \o "/-", volume)

addVolume(p, volume) ==
    LET path == "/spec/volumes"
    IN  IF Len(p.Volumes) = 0
        THEN patchOperation("add", path, Array(<<volume>>))
        ELSE patchOperation("add", path \o "/-", volume)

(* The scan of addVolumeMount and addEnvironmentVariable: the 0-based      *)
(* index of the first Spark container, or len(containers) when none.       *)
RECURSIVE findContainer(_, _)
findContainer(containers, i) ==
    IF i < Len(containers)
    THEN IF \/ containers[i + 1].Name = sparkDriverContainerName
            \/ containers[i + 1].Name = sparkExecutorContainerName
         THEN i
         ELSE findContainer(containers, i + 1)
    ELSE i

addVolumeMount(p, mount) ==
    LET i == findContainer(p.Containers, 0)
        path == "/spec/containers/" \o ToString(i) \o "/volumeMounts"
    IN  IF i >= Len(p.Containers)
        THEN Panic
        ELSE IF Len(p.Containers[i + 1].VolumeMounts) = 0
             THEN patchOperation("add", path, Array(<<mount>>))
             ELSE patchOperation("add", path \o "/-", mount)

addEnvironmentVariable(p, envName, envValue) ==
    LET i == findContainer(p.Containers, 0)
        path == "/spec/containers/" \o ToString(i) \o "/env"
        envVar == [Name |-> envName, Value |-> envValue]
    IN  IF i >= Len(p.Containers)
        THEN Panic
        ELSE IF Len(p.Containers[i + 1].Env) = 0
             THEN patchOperation("add", path, Array(<<envVar>>))
             ELSE patchOperation("add", path \o "/-", envVar)

(* volumeMap of addVolumes: a later volume of the same name replaces an    *)
(* earlier one.                                                            *)
volumeMapHas(volumes, name) == \E k \in 1..Len(volumes) : volumes[k].Name = name

volumeMapGet(volumes, name) ==
    LET k == CHOOSE k \in 1..Len(volumes) :
                 /\ volumes[k].Name = name
                 /\ \A j \in (k + 1)..Len(volumes) : volumes[j].Name # name
    IN  volumes[k]

roleVolumeMounts(p, a) ==
    IF IsDriverPod(p) THEN a.Driver.VolumeMounts
    ELSE IF IsExecutorPod(p) THEN a.Executor.VolumeMounts
    ELSE <<>>

RECURSIVE addVolumesLoop(_, _, _)
addVolumesLoop(p, volumes, mounts) ==
    IF mounts = <<>> THEN <<>>
    ELSE LET m == Head(mounts)
         IN  (IF volumeMapHas(volumes, m.Name)
              THEN <<addVolume(p, volumeMapGet(volumes, m.Name)), addVolumeMount(p, m)>>
              ELSE <<>>)
             \o addVolumesLoop(p, volumes, Tail(mounts))

(* addVolumes ranging over the declared volumes instead of the mounts.     *)
addVolumesInVolumeOrder(p, a) ==
    LET mounts == roleVolumeMounts(p, a)
        RECURSIVE loop(_)
        loop(volumes) ==
            IF volumes = <<>> THEN <<>>
            ELSE LET named == SelectSeq(mounts, LAMBDA m : m.Name = Head(volumes).Name)
                 IN  (IF named # <<>>
                      THEN <<addVolume(p, Head(volumes)), addVolumeMount(p, named[1])>>
                      ELSE <<>>)
                     \o loop(Tail(volumes))
    IN  loop(a.Volumes)

addVolumes(p, a) == addVolumesLoop(p, a.Volumes, roleVolumeMounts(p, a))

addConfigMapVolume(p, configMapName, configMapVolumeName) ==
    addVolume(p, [Name |-> configMapVolumeName,
                  VolumeSource |-> [ConfigMap |-> [Name |-> configMapName]]])

addConfigMapVolumeMount(p, configMapVolumeName, mountPath) ==
    addVolumeMount(p, [Name |-> configMapVolumeName,
                       ReadOnly |-> TRUE,
                       MountPath |-> mountPath])

addSparkConfigMap(p, a) ==
    IF a.SparkConfigMap # Nil
    THEN << addConfigMapVolume(p, a.SparkConfigMap.ptr, SparkConfigMapVolumeName),
            addConfigMapVolumeMount(p, SparkConfigMapVolumeName, DefaultSparkConfDir),
            addEnvironmentVariable(p, SparkConfDirEnvVar, DefaultSparkConfDir) >>
    ELSE <<>>

(* addHadoopConfigMap exporting the Spark directory, as copied from        *)
(* addSparkConfigMap.                                                      *)
addHadoopConfigMapSparkDir(p, a) ==
    IF a.HadoopConfigMap # Nil
    THEN << addConfigMapVolume(p, a.HadoopConfigMap.ptr, HadoopConfigMapVolumeName),
            addConfigMapVolumeMount(p, HadoopConfigMapVolumeName, DefaultHadoopConfDir),
            addEnvironmentVariable(p, HadoopConfDirEnvVar, DefaultSparkConfDir) >>
    ELSE <<>>

addHadoopConfigMap(p, a) ==
    IF a.HadoopConfigMap # Nil
    THEN << addConfigMapVolume(p, a.HadoopConfigMap.ptr, HadoopConfigMapVolumeName),
            addConfigMapVolumeMount(p, HadoopConfigMapVolumeName, DefaultHadoopConfDir),
            addEnvironmentVariable(p, HadoopConfDirEnvVar, DefaultHadoopConfDir) >>
    ELSE <<>>

roleConfigMaps(p, a) ==
    IF IsDriverPod(p) THEN a.Driver.ConfigMaps
    ELSE IF IsExecutorPod(p) THEN a.Executor.ConfigMaps
    ELSE <<>>

(* The truncation with its comparison off by one.                          *)
configMapVolumeNameOffByOne(name) ==
    LET volumeName == name \o "-vol"
    IN  IF Len(volumeName) > maxNameLength + 1
        THEN SubSeq(volumeName, 1, maxNameLength)
        ELSE volumeName

configMapVolumeName(name) ==
    LET volumeName == name \o "-vol"
    IN  IF Len(volumeName) > maxNameLength
        THEN SubSeq(volumeName, 1, maxNameLength)
        ELSE volumeName

RECURSIVE addGeneralConfigMapsLoop(_, _)
addGeneralConfigMapsLoop(p, configMaps) ==
    IF configMaps = <<>> THEN <<>>
    ELSE LET namePath == Head(configMaps)
             volumeName == configMapVolumeName(namePath.Name)
         IN  << addConfigMapVolume(p, namePath.Name, volumeName),
                addConfigMapVolumeMount(p, volumeName, namePath.Path) >>
             \o addGeneralConfigMapsLoop(p, Tail(configMaps))

addGeneralConfigMaps(p, a) == addGeneralConfigMapsLoop(p, roleConfigMaps(p, a))

roleAffinity(p, a) ==
    IF IsDriverPod(p) THEN a.Driver.Affinity
    ELSE IF IsExecutorPod(p) THEN a.Executor.Affinity
    ELSE Nil

(* addAffinity returns a *patchOperation: Nil or the operation.            *)
addAffinity(p, a) ==
    LET affinity == roleAffinity(p, a)
    IN  IF affinity = Nil THEN Nil
        ELSE patchOperation("add", "/spec/affinity", affinity)

roleTolerations(p, a) ==
    IF IsDriverPod(p) THEN a.Driver.Tolerations
    ELSE IF IsExecutorPod(p) THEN a.Executor.Tolerations
    ELSE <<>>

(* addToleration with the path of addVolume.                               *)
addTolerationOnVolumes(p, toleration) ==
    LET path == "/spec/volumes"
    IN  IF Len(p.Tolerations) = 0
        THEN patchOperation("add", path, Array(<<toleration>>))
        ELSE patchOperation("add", path \o "/-", toleration)

addToleration(p, toleration) ==
    LET path == "/spec/tolerations"
    IN  IF Len(p.Tolerations) = 0
        THEN patchOperation("add", path, Array(<<toleration>>))
        ELSE patchOperation("add", path \o "/-", toleration)

addTolerations(p, a) ==
    LET tolerations == roleTolerations(p, a)
    IN  [k \in 1..Len(tolerations) |-> addToleration(p, tolerations[k])]

roleSecurityContext(p, a) ==
    IF IsDriverPod(p) THEN a.Driver.SecurityContenxt
    ELSE IF IsExecutorPod(p) THEN a.Executor.SecurityContenxt
    ELSE Nil

addSecurityContext(p, a) ==
    LET secContext == roleSecurityContext(p, a)
    IN  IF secContext = Nil THEN Nil
        ELSE patchOperation("add", "/spec/securityContext", secContext)

----------------------------------------------------------------------------
(* patchSparkPod, one step per statement.  pc is the statement about to    *)
(* run; "done" is the return of patchOps to the caller and "panic" is the  *)
(* Go runtime panic of an out-of-range index, after which nothing is       *)
(* returned.                                                               *)

(* append with its arguments exchanged.                                    *)
appendOpsInFront(ops, next) ==
    /\ IF Panicked(ops)
       THEN pc' = "panic" /\ patchOps' = patchOps
       ELSE pc' = next /\ patchOps' = ops \o patchOps
    /\ UNCHANGED <<pod, app>>

appendOps(ops, next) ==
    /\ IF Panicked(ops)
       THEN pc' = "panic" /\ patchOps' = patchOps
       ELSE pc' = next /\ patchOps' = patchOps \o ops
    /\ UNCHANGED <<pod, app>>

appendPtr(op, next) ==
    /\ pc' = next
    /\ patchOps' = IF op # Nil THEN Append(patchOps, op) ELSE patchOps
    /\ UNCHANGED <<pod, app>>

(* The owner reference added whatever the role of the pod.                 *)
StepOwnerReferenceAnyRole ==
    /\ pc = "addOwnerReference"
    /\ appendOps(<<addOwnerReference(pod, app)>>, "addVolumes")

StepOwnerReference ==
    /\ pc = "addOwnerReference"
    /\ appendOps(IF IsDriverPod(pod) THEN <<addOwnerReference(pod, app)>> ELSE <<>>,
                 "addVolumes")

StepVolumes ==
    /\ pc = "addVolumes"
    /\ appendOps(addVolumes(pod, app), "addGeneralConfigMaps")

StepGeneralConfigMaps ==
    /\ pc = "addGeneralConfigMaps"
    /\ appendOps(addGeneralConfigMaps(pod, app), "addSparkConfigMap")

StepSparkConfigMap ==
    /\ pc = "addSparkConfigMap"
    /\ appendOps(addSparkConfigMap(pod, app), "addHadoopConfigMap")

StepHadoopConfigMap ==
    /\ pc = "addHadoopConfigMap"
    /\ appendOps(addHadoopConfigMap(pod, app), "addTolerations")

StepTolerations ==
    /\ pc = "addTolerations"
    /\ appendOps(addTolerations(pod, app), "addAffinity")

(* The affinity added without looking at the pod's own.                    *)
StepAffinityUnguarded ==
    /\ pc = "addAffinity"
    /\ appendPtr(addAffinity(pod, app), "addSecurityContext")

StepAffinity ==
    /\ pc = "addAffinity"
    /\ appendPtr(IF pod.Affinity = Nil THEN addAffinity(pod, app) ELSE Nil,
                 "addSecurityContext")

StepSecurityContext ==
    /\ pc = "addSecurityContext"
    /\ appendPtr(IF pod.SecurityContext = Nil THEN addSecurityContext(pod, app) ELSE Nil,
                 "return")

StepReturn ==
    /\ pc = "return"
    /\ pc' = "done"
    /\ UNCHANGED <<pod, app, patchOps>>

----------------------------------------------------------------------------
(* The inputs: the pod under admission and the SparkApplication.           *)

MaxExisting == 1
MaxTolerations == 2

Roles == {"driver", "executor", "other"}

Existing(prefix, n) == [k \in 1..n |-> [Name |-> prefix \o ToString(k)]]

ExistingLists(prefix) == {Existing(prefix, n) : n \in 0..MaxExisting}

Container(name, nMounts, nEnv) ==
    [Name |-> name,
     VolumeMounts |-> Existing("mount", nMounts),
     Env |-> Existing("ENV", nEnv)]

ContainerLists ==
    { <<>>,
      <<Container("sidecar", 1, 1)>>,
      <<Container(sparkDriverContainerName, 0, 0)>>,
      <<Container(sparkExecutorContainerName, 1, 0)>>,
      <<Container("sidecar", 1, 0), Container(sparkDriverContainerName, 0, 1)>>,
      <<Container(sparkExecutorContainerName, 0, 0),
        Container(sparkDriverContainerName, 1, 1)>>,
      <<Container("istio-init", 0, 0), Container("sidecar", 0, 1),
        Container(sparkExecutorContainerName, 1, 1)>> }

Volume(name, source) == [Name |-> name, VolumeSource |-> [HostPath |-> source]]

Mount(name, path) == [Name |-> name, ReadOnly |-> FALSE, MountPath |-> path]

(* The declared volumes with the mounts of the pod's role.                 *)
VolumeCases ==
    { [Volumes |-> <<>>, VolumeMounts |-> <<>>],
      [Volumes |-> <<Volume("data", "/mnt/data")>>,
       VolumeMounts |-> <<Mount("data", "/data")>>],
      [Volumes |-> <<Volume("data", "/mnt/data"), Volume("logs", "/mnt/logs")>>,
       VolumeMounts |-> <<Mount("logs", "/logs"), Mount("missing", "/missing"),
                          Mount("data", "/data")>>],
      [Volumes |-> <<Volume("data", "/mnt/first"), Volume("data", "/mnt/second")>>,
       VolumeMounts |-> <<Mount("data", "/data")>>],
      [Volumes |-> <<Volume("data", "/mnt/data")>>,
       VolumeMounts |-> <<Mount("missing", "/missing")>>] }

Name59 == "c23456789012345678901234567890123456789012345678901234567-9"
Name60 == "c23456789012345678901234567890123456789012345678901234567-90"
Name70 == "c23456789012345678901234567890123456789012345678901234567-901234567890"

NamePath(name, path) == [Name |-> name, Path |-> path]

ConfigMapCases ==
    { <<>>,
      <<NamePath("cm1", "/etc/cm1")>>,
      <<NamePath(Name59, "/etc/n59"), NamePath(Name60, "/etc/n60")>>,
      <<NamePath("cm1", "/etc/cm1"), NamePath(Name70, "/etc/n70")>> }

StringPtrs(s) == {Nil, [ptr |-> s]}

Toleration(k) == [Key |-> "key" \o ToString(k), Operator |-> "Exists"]

TolerationLists == {[k \in 1..n |-> Toleration(k)] : n \in 0..MaxTolerations}

Affinities == {Nil, [NodeAffinity |-> "zone-a"]}

SecurityContexts == {Nil, [RunAsUser |-> "spark"]}

(* What of the inputs the volume, mount and environment patchers read.     *)
VolumeSides ==
    [Volumes : ExistingLists("volume"),
     Containers : ContainerLists,
     declared : VolumeCases,
     ConfigMaps : ConfigMapCases,
     SparkConfigMap : StringPtrs("my-config"),
     HadoopConfigMap : StringPtrs("hadoop-config")]

(* What of the inputs the ownership, toleration, affinity and security     *)
(* context patchers read.                                                  *)
SchedulingSides ==
    [OwnerReferences : ExistingLists("owner"),
     PodTolerations : {[k \in 1..n |-> Toleration(10 + k)] : n \in 0..MaxExisting},
     PodAffinity : {Nil, [NodeAffinity |-> "zone-b"]},
     PodSecurityContext : {Nil, [RunAsUser |-> "root"]},
     Tolerations : TolerationLists,
     Affinity : Affinities,
     SecurityContenxt : SecurityContexts]

NothingDeclared(side) ==
    /\ side.declared.Volumes = <<>>
    /\ side.ConfigMaps = <<>>
    /\ side.SparkConfigMap = Nil
    /\ side.HadoopConfigMap = Nil

EverythingDeclared(side) ==
    /\ Len(side.declared.VolumeMounts) = 3
    /\ Len(side.ConfigMaps) = 2
    /\ side.ConfigMaps[1].Name = "cm1"
    /\ side.SparkConfigMap # Nil
    /\ side.HadoopConfigMap # Nil

VolumeCorners ==
    { v \in VolumeSides :
        /\ Len(v.Containers) = 2
        /\ v.Containers[1].Name # sparkExecutorContainerName
        /\ NothingDeclared(v) \/ EverythingDeclared(v) }

SchedulingCorners ==
    { s \in SchedulingSides :
        /\ Len(s.OwnerReferences) = Len(s.PodTolerations)
        /\ (s.PodAffinity = Nil) = (s.PodSecurityContext = Nil)
        /\ (s.PodAffinity = Nil) = (s.PodTolerations = <<>>)
        /\ (s.Affinity = Nil) = (s.SecurityContenxt = Nil)
        /\ Len(s.Tolerations) = (IF s.Affinity = Nil THEN 0 ELSE MaxTolerations) }

(* The inputs explored: every volume side with the corner scheduling       *)
(* sides, and every scheduling side with the corner volume sides.          *)
Sides ==
    (VolumeSides \X SchedulingCorners) \cup (VolumeCorners \X SchedulingSides)

(* The spec of the role the pod does not have.                             *)
OtherRoleSpecs ==
    { [VolumeMounts |-> <<>>, ConfigMaps |-> <<>>, Tolerations |-> <<>>,
       Affinity |-> Nil, SecurityContenxt |-> Nil],
      [VolumeMounts |-> <<Mount("data", "/other")>>,
       ConfigMaps |-> <<NamePath("other-cm", "/etc/other")>>,
       Tolerations |-> <<Toleration(20)>>,
       Affinity |-> [NodeAffinity |-> "zone-other"],
       SecurityContenxt |-> [RunAsUser |-> "other"]] }

MakePod(role, v, s) ==
    [Role |-> role,
     OwnerReferences |-> s.OwnerReferences,
     Volumes |-> v.Volumes,
     Containers |-> v.Containers,
     Affinity |-> s.PodAffinity,
     SecurityContext |-> s.PodSecurityContext,
     Tolerations |-> s.PodTolerations]

MakeRoleSpec(v, s) ==
    [VolumeMounts |-> v.declared.VolumeMounts,
     ConfigMaps |-> v.ConfigMaps,
     Tolerations |-> s.Tolerations,
     Affinity |-> s.Affinity,
     SecurityContenxt |-> s.SecurityContenxt]

MakeApp(role, v, s, other) ==
    [Name |-> "spark-pi",
     Volumes |-> v.declared.Volumes,
     Driver |-> IF role = "executor" THEN other ELSE MakeRoleSpec(v, s),
     Executor |-> IF role = "executor" THEN MakeRoleSpec(v, s) ELSE other,
     SparkConfigMap |-> v.SparkConfigMap,
     HadoopConfigMap |-> v.HadoopConfigMap]

Init ==
    /\ \E role \in Roles, side \in Sides, other \in OtherRoleSpecs :
          /\ pod = MakePod(role, side[1], side[2])
          /\ app = MakeApp(role, side[1], side[2], other)
    /\ pc = "addOwnerReference"
    /\ patchOps = <<>>

Next ==
    \/ StepOwnerReference
    \/ StepVolumes
    \/ StepGeneralConfigMaps
    \/ StepSparkConfigMap
    \/ StepHadoopConfigMap
    \/ StepTolerations
    \/ StepAffinity
    \/ StepSecurityContext
    \/ StepReturn

Spec == Init /\ [][Next]_vars

----------------------------------------------------------------------------
(* RFC 6902 "add", as the API server applies the returned patch to the     *)
(* pod.  The document holds the array members the patch addresses; an      *)
(* empty Go slice is an absent member.  "add" at a member sets it,         *)
(* replacing what it held; "add" at <array>/- appends to an array that     *)
(* exists and is an error otherwise.                                       *)

ownerReferencesPath == "/metadata/ownerReferences"
volumesPath == "/spec/volumes"
tolerationsPath == "/spec/tolerations"
volumeMountsPath(i) == "/spec/containers/" \o ToString(i) \o "/volumeMounts"
envPath(i) == "/spec/containers/" \o ToString(i) \o "/env"

ArrayPaths(p) ==
    {ownerReferencesPath, volumesPath, tolerationsPath}
    \cup {volumeMountsPath(i) : i \in 0..(Len(p.Containers) - 1)}
    \cup {envPath(i) : i \in 0..(Len(p.Containers) - 1)}

Document(p) ==
    [path \in ArrayPaths(p) |->
        IF path = ownerReferencesPath THEN p.OwnerReferences
        ELSE IF path = volumesPath THEN p.Volumes
        ELSE IF path = tolerationsPath THEN p.Tolerations
        ELSE LET i == CHOOSE i \in 0..(Len(p.Containers) - 1) :
                          path \in {volumeMountsPath(i), envPath(i)}
             IN  IF path = volumeMountsPath(i)
                 THEN p.Containers[i + 1].VolumeMounts
                 ELSE p.Containers[i + 1].Env]

IsArray(value) == "array" \in DOMAIN value

(* The document after one operation, or Nil when the operation is an error. *)
applyAdd(doc, op) ==
    IF doc = Nil THEN Nil
    ELSE IF op.Path \in DOMAIN doc
    THEN IF IsArray(op.Value) THEN [doc EXCEPT ![op.Path] = op.Value.array] ELSE Nil
    ELSE IF \E path \in DOMAIN doc : op.Path = path \o "/-"
    THEN LET path == CHOOSE path \in DOMAIN doc : op.Path = path \o "/-"
         IN  IF doc[path] = <<>> THEN Nil
             ELSE [doc EXCEPT ![path] = Append(doc[path], op.Value)]
    ELSE doc

RECURSIVE applyPatch(_, _)
applyPatch(doc, ops) ==
    IF ops = <<>> THEN doc ELSE applyPatch(applyAdd(doc, Head(ops)), Tail(ops))

----------------------------------------------------------------------------
(* Vocabulary of the properties.                                           *)

SparkContainerNames == {sparkDriverContainerName, sparkExecutorContainerName}

HasSparkContainer(p) ==
    \E k \in 1..Len(p.Containers) : p.Containers[k].Name \in SparkContainerNames

(* The 0-based index of the first container with a Spark container name.   *)
FirstSparkContainer(p) ==
    CHOOSE i \in 0..(Len(p.Containers) - 1) :
        /\ p.Containers[i + 1].Name \in SparkContainerNames
        /\ \A j \in 0..(i - 1) : p.Containers[j + 1].Name \notin SparkContainerNames

(* The part of the descriptor that applies to the pod's role.              *)
DeclaredFor(p, a) ==
    IF p.Role = "driver" THEN a.Driver
    ELSE IF p.Role = "executor" THEN a.Executor
    ELSE [VolumeMounts |-> <<>>, ConfigMaps |-> <<>>, Tolerations |-> <<>>,
          Affinity |-> Nil, SecurityContenxt |-> Nil]

DeclaredVolumeNames(a) == {a.Volumes[k].Name : k \in 1..Len(a.Volumes)}

IsMatched(a, m) == m.Name \in DeclaredVolumeNames(a)

MatchedMounts(p, a) ==
    LET mounts == DeclaredFor(p, a).VolumeMounts
    IN  SelectSeq(mounts, LAMBDA m : IsMatched(a, m))

(* The descriptor makes some patcher build a mount or an environment       *)
(* variable.                                                               *)
NeedsContainer(p, a) ==
    \/ MatchedMounts(p, a) # <<>>
    \/ DeclaredFor(p, a).ConfigMaps # <<>>
    \/ a.SparkConfigMap # Nil
    \/ a.HadoopConfigMap # Nil

(* The element an operation adds, whichever shape its value has.           *)
Element(op) == IF IsArray(op.Value) THEN op.Value.array[1] ELSE op.Value

IsCreate(op, path) ==
    /\ op.Path = path
    /\ IsArray(op.Value)
    /\ Len(op.Value.array) = 1

IsAppend(op, path) ==
    /\ op.Path = path \o "/-"
    /\ ~IsArray(op.Value)

Targets(op, path) == op.Path \in {path, path \o "/-"}

(* The array fields of the pod that a patch may address, each with the     *)
(* number of elements it has in the pod as observed.                       *)
ArrayFields(p) ==
    { [path |-> ownerReferencesPath, len |-> Len(p.OwnerReferences)],
      [path |-> volumesPath, len |-> Len(p.Volumes)],
      [path |-> tolerationsPath, len |-> Len(p.Tolerations)] }
    \cup
    ( IF HasSparkContainer(p)
      THEN LET i == FirstSparkContainer(p)
           IN  { [path |-> volumeMountsPath(i),
                  len |-> Len(p.Containers[i + 1].VolumeMounts)],
                 [path |-> envPath(i), len |-> Len(p.Containers[i + 1].Env)] }
      ELSE {} )

ObeysAppendLaw(op, field) ==
    IF field.len = 0 THEN IsCreate(op, field.path) ELSE IsAppend(op, field.path)

NumberOn(ops, paths) == Cardinality({k \in 1..Len(ops) : ops[k].Path \in paths})

(* What the statement at pc has just appended to patchOps.                 *)
Emitted == SubSeq(patchOps', Len(patchOps) + 1, Len(patchOps'))

Ran(from, to) == pc = from /\ pc' = to

----------------------------------------------------------------------------
(* C1: with no container named spark-kubernetes-driver or executor and a   *)
(* descriptor that makes a mount or an environment variable be built,      *)
(* patch derivation fails with an explicit ContainerNotFound error: it     *)
(* neither returns operations nor indexes the container list out of range. *)
C1_ContainerNotFound ==
    (~HasSparkContainer(pod) /\ NeedsContainer(pod, app))
        => pc \notin {"panic", "done"}

(* C2: every operation is an "add"; one on an array field obeys the append *)
(* law against the field's length in the pod as observed (bare path and    *)
(* one-element array when empty, path/- and bare element otherwise), the   *)
(* mount and env fields being those of the first Spark container.          *)
C2_ArrayAppendLaw ==
    \A k \in 1..Len(patchOps) :
        LET op == patchOps[k]
        IN  /\ op.Op = "add"
            /\ \/ op.Path \in {"/spec/affinity", "/spec/securityContext"}
               \/ \E field \in ArrayFields(pod) : ObeysAppendLaw(op, field)

C2_Witness ==
    /\ pc = "done"
    /\ Len(pod.Volumes) = 0
    /\ Len(pod.Tolerations) > 0
    /\ \E k \in 1..Len(patchOps) : patchOps[k].Path = "/spec/volumes"
    /\ \E k \in 1..Len(patchOps) : patchOps[k].Path = "/spec/tolerations/-"
    /\ \E k \in 1..Len(patchOps) : patchOps[k].Path = "/spec/containers/2/volumeMounts/-"
    /\ \E k \in 1..Len(patchOps) : patchOps[k].Path = "/spec/containers/2/env/-"
    /\ \E k \in 1..Len(patchOps) : patchOps[k].Path = "/metadata/ownerReferences/-"

(* C3 as stated: the returned patch has an operation on /spec/affinity     *)
(* exactly when the pod had no affinity, and one on /spec/securityContext  *)
(* exactly when the pod had no security context.                           *)
C3_Original ==
    pc = "done" =>
        /\ (NumberOn(patchOps, {"/spec/affinity"}) > 0) <=> (pod.Affinity = Nil)
        /\ (NumberOn(patchOps, {"/spec/securityContext"}) > 0)
               <=> (pod.SecurityContext = Nil)

(* C3 amended: the returned patch has one operation on /spec/affinity,     *)
(* carrying the declared affinity, when the pod had no affinity and the    *)
(* descriptor declares one for the pod's role, and none otherwise; the     *)
(* same for /spec/securityContext.                                         *)
C3_OnlyIfAbsentAndDeclared ==
    pc = "done" =>
        LET declared == DeclaredFor(pod, app)
            affinityOps == SelectSeq(patchOps, LAMBDA op : op.Path = "/spec/affinity")
            securityOps ==
                SelectSeq(patchOps, LAMBDA op : op.Path = "/spec/securityContext")
        IN  /\ affinityOps =
                   IF pod.Affinity = Nil /\ declared.Affinity # Nil
                   THEN <<patchOperation("add", "/spec/affinity", declared.Affinity)>>
                   ELSE <<>>
            /\ securityOps =
                   IF pod.SecurityContext = Nil /\ declared.SecurityContenxt # Nil
                   THEN <<patchOperation("add", "/spec/securityContext",
                                         declared.SecurityContenxt)>>
                   ELSE <<>>

C3_Witness ==
    /\ pc = "done"
    /\ pod.Affinity # Nil
    /\ pod.SecurityContext = Nil
    /\ DeclaredFor(pod, app).Affinity # Nil
    /\ DeclaredFor(pod, app).SecurityContenxt # Nil
    /\ NumberOn(patchOps, {"/spec/affinity"}) = 0
    /\ NumberOn(patchOps, {"/spec/securityContext"}) = 1

(* C4: the returned patch has exactly one operation on the owner           *)
(* references when the pod is the driver and none otherwise.               *)
C4_OwnershipIffDriver ==
    pc = "done" =>
        NumberOn(patchOps, {ownerReferencesPath, ownerReferencesPath \o "/-"})
            = (IF pod.Role = "driver" THEN 1 ELSE 0)

C4_Witness ==
    /\ pc = "done"
    /\ pod.Role = "driver"
    /\ NumberOn(patchOps, {ownerReferencesPath, ownerReferencesPath \o "/-"}) = 1
    /\ Len(patchOps) > 1

(* C5: addVolumes emits, for the mounts of the pod's role that name a      *)
(* declared volume, taken in the order of the mount list, the pair         *)
(* (add that volume, add that mount), and nothing else; a mount naming no  *)
(* declared volume and a volume no mount names produce nothing.            *)
C5_FilterJoin ==
    [][ Ran("addVolumes", "addGeneralConfigMaps") =>
            LET matched == MatchedMounts(pod, app)
                i == FirstSparkContainer(pod)
            IN  /\ patchOps' = patchOps \o Emitted
                /\ Len(Emitted) = 2 * Len(matched)
                /\ \A k \in 1..Len(matched) :
                      LET volumeOp == Emitted[2 * k - 1]
                          mountOp == Emitted[2 * k]
                      IN  /\ Targets(volumeOp, volumesPath)
                          /\ Element(volumeOp).Name = matched[k].Name
                          /\ \E n \in 1..Len(app.Volumes) :
                                Element(volumeOp) = app.Volumes[n]
                          /\ Targets(mountOp, volumeMountsPath(i))
                          /\ Element(mountOp) = matched[k] ]_vars

C5_Witness ==
    /\ pc = "addGeneralConfigMaps"
    /\ Len(DeclaredFor(pod, app).VolumeMounts) = 3
    /\ Len(MatchedMounts(pod, app)) = 2
    /\ app.Volumes[1].Name = "data"
    /\ Len(patchOps) >= 4
    /\ Element(patchOps[Len(patchOps) - 3]).Name = "logs"
    /\ Element(patchOps[Len(patchOps)]).Name = "data"

(* The volume name the claim gives a general config reference.             *)
C6_VolumeName(name) ==
    IF Len(name) + 4 > 63 THEN SubSeq(name \o "-vol", 1, 63) ELSE name \o "-vol"

(* C6: for the general config references of the pod's role, in order, the  *)
(* patcher emits a volume and a mount both named name-vol cut to its first *)
(* 63 characters; the volume's config-map source is the full name, the     *)
(* mount is read-only at the declared path, no environment variable is     *)
(* emitted, and a long name is no failure.                                 *)
C6_GeneralConfigMaps ==
    [][ (pc = "addGeneralConfigMaps" /\ HasSparkContainer(pod)) =>
            LET refs == DeclaredFor(pod, app).ConfigMaps
                i == FirstSparkContainer(pod)
            IN  /\ pc' = "addSparkConfigMap"
                /\ patchOps' = patchOps \o Emitted
                /\ Len(Emitted) = 2 * Len(refs)
                /\ \A k \in 1..Len(refs) :
                      LET volumeOp == Emitted[2 * k - 1]
                          mountOp == Emitted[2 * k]
                          name == C6_VolumeName(refs[k].Name)
                      IN  /\ Len(name) <= 63
                          /\ Targets(volumeOp, volumesPath)
                          /\ Element(volumeOp).Name = name
                          /\ Element(volumeOp).VolumeSource.ConfigMap.Name = refs[k].Name
                          /\ Targets(mountOp, volumeMountsPath(i))
                          /\ Element(mountOp).Name = name
                          /\ Element(mountOp).ReadOnly
                          /\ Element(mountOp).MountPath = refs[k].Path ]_vars

C6_Witness ==
    /\ pc = "addSparkConfigMap"
    /\ \E k \in 1..Len(DeclaredFor(pod, app).ConfigMaps) :
          Len(DeclaredFor(pod, app).ConfigMaps[k].Name) = 60
    /\ \E k \in 1..Len(patchOps) :
          /\ Targets(patchOps[k], volumesPath)
          /\ Len(Element(patchOps[k]).Name) = 63
          /\ Len(Element(patchOps[k]).VolumeSource.ConfigMap.Name) = 60
    /\ \E k \in 1..Len(patchOps) :
          /\ Targets(patchOps[k], volumesPath)
          /\ Element(patchOps[k]).Name = Name59 \o "-vol"

(* What the claim has a built-in config specialization emit for a          *)
(* reference, a default directory and the operations emitted.              *)
C7_Triple(reference, directory, emitted) ==
    IF reference = Nil THEN emitted = <<>>
    ELSE LET i == FirstSparkContainer(pod)
         IN  /\ Len(emitted) = 3
             /\ Targets(emitted[1], volumesPath)
             /\ Element(emitted[1]).VolumeSource.ConfigMap.Name = reference.ptr
             /\ Targets(emitted[2], volumeMountsPath(i))
             /\ Element(emitted[2]).Name = Element(emitted[1]).Name
             /\ Element(emitted[2]).ReadOnly
             /\ Element(emitted[2]).MountPath = directory
             /\ Targets(emitted[3], envPath(i))
             /\ Element(emitted[3]).Value = directory

(* C7: addSparkConfigMap and addHadoopConfigMap each emit, for a reference *)
(* that is set, a volume backed by the referenced config map, a read-only  *)
(* mount of that volume at the specialization's default directory and an   *)
(* environment variable whose value is that directory, in this order; and  *)
(* nothing for a reference that is not set.                                *)
C7_BuiltInConfigMaps ==
    [][ /\ Ran("addSparkConfigMap", "addHadoopConfigMap") =>
               /\ patchOps' = patchOps \o Emitted
               /\ C7_Triple(app.SparkConfigMap, DefaultSparkConfDir, Emitted)
        /\ Ran("addHadoopConfigMap", "addTolerations") =>
               /\ patchOps' = patchOps \o Emitted
               /\ C7_Triple(app.HadoopConfigMap, DefaultHadoopConfDir, Emitted) ]_vars

C7_Witness ==
    /\ pc = "addTolerations"
    /\ app.SparkConfigMap # Nil
    /\ app.HadoopConfigMap # Nil
    /\ Len(patchOps) >= 6
    /\ Element(patchOps[Len(patchOps)]).Value = DefaultHadoopConfDir
    /\ Element(patchOps[Len(patchOps) - 3]).Value = DefaultSparkConfDir

(* The operations on /spec/affinity and /spec/securityContext of C8.       *)
C8_Conditional(absent, op) == IF absent /\ op # Nil THEN <<op>> ELSE <<>>

(* C8: the returned patch is the concatenation, in this order, of the      *)
(* outputs of ownership (driver only), volumes and mounts, general config  *)
(* references, application config, secondary system config, tolerations,   *)
(* affinity and security context.                                          *)
C8_FixedOrder ==
    pc = "done" =>
        patchOps =
            (IF pod.Role = "driver" THEN <<addOwnerReference(pod, app)>> ELSE <<>>)
            \o addVolumes(pod, app)
            \o addGeneralConfigMaps(pod, app)
            \o addSparkConfigMap(pod, app)
            \o addHadoopConfigMap(pod, app)
            \o addTolerations(pod, app)
            \o C8_Conditional(pod.Affinity = Nil, addAffinity(pod, app))
            \o C8_Conditional(pod.SecurityContext = Nil, addSecurityContext(pod, app))

C8_Witness ==
    /\ pc = "done"
    /\ pod.Role = "driver"
    /\ addVolumes(pod, app) # <<>>
    /\ addGeneralConfigMaps(pod, app) # <<>>
    /\ addSparkConfigMap(pod, app) # <<>>
    /\ addHadoopConfigMap(pod, app) # <<>>
    /\ addTolerations(pod, app) # <<>>
    /\ patchOps[Len(patchOps) - 1].Path = "/spec/affinity"
    /\ patchOps[Len(patchOps)].Path = "/spec/securityContext"

TargetsAny(op, paths) == \E path \in paths : Targets(op, path)

SomeTargets(ops, paths) == \E k \in 1..Len(ops) : TargetsAny(ops[k], paths)

SparkContainerPaths(p) ==
    IF HasSparkContainer(p)
    THEN [volumeMounts |-> {volumeMountsPath(FirstSparkContainer(p))},
          env |-> {envPath(FirstSparkContainer(p))}]
    ELSE [volumeMounts |-> {}, env |-> {}]

(* C9 as stated: no two patcher families emit operations on the same array *)
(* field: a statement of patchSparkPod, each being one family, never emits *)
(* on a field that an earlier statement has emitted on.                    *)
C9_Original ==
    [][ \A field \in ArrayFields(pod) :
            SomeTargets(patchOps, {field.path}) => ~SomeTargets(Emitted, {field.path})
      ]_vars

(* C9 amended: the owner references are targeted by the ownership patcher  *)
(* alone and the tolerations by the toleration patcher alone; the volumes  *)
(* and the Spark container's volumeMounts are targeted by the volume and   *)
(* mount, general config, application config and secondary system config   *)
(* patchers and by no other; the Spark container's env by the application  *)
(* config and secondary system config patchers and by no other.            *)
C9_FieldsPerFamily ==
    [][ \A k \in 1..Len(Emitted) :
            LET op == Emitted[k]
                container == SparkContainerPaths(pod)
            IN  /\ TargetsAny(op, {ownerReferencesPath}) => pc = "addOwnerReference"
                /\ TargetsAny(op, {tolerationsPath}) => pc = "addTolerations"
                /\ TargetsAny(op, {volumesPath} \cup container.volumeMounts) =>
                       pc \in {"addVolumes", "addGeneralConfigMaps",
                               "addSparkConfigMap", "addHadoopConfigMap"}
                /\ TargetsAny(op, container.env) =>
                       pc \in {"addSparkConfigMap", "addHadoopConfigMap"}
      ]_vars

C9_Witness ==
    /\ pc = "done"
    /\ MatchedMounts(pod, app) # <<>>
    /\ DeclaredFor(pod, app).ConfigMaps # <<>>
    /\ app.SparkConfigMap # Nil
    /\ app.HadoopConfigMap # Nil
    /\ DeclaredFor(pod, app).Tolerations # <<>>
    /\ pod.Role = "driver"
    /\ NumberOn(patchOps, {volumesPath, volumesPath \o "/-"}) >= 4
    /\ NumberOn(patchOps, {tolerationsPath, tolerationsPath \o "/-"}) >= 1

(* Every operation is valid, in the sense of C10, against the document it  *)
(* is applied to: the bare array path only while the array is empty, the   *)
(* append path only once it is not.                                        *)
RECURSIVE C10_ValidFrom(_, _)
C10_ValidFrom(doc, ops) ==
    \/ ops = <<>>
    \/ /\ doc # Nil
       /\ \A path \in DOMAIN doc :
             /\ Head(ops).Path = path => doc[path] = <<>>
             /\ Head(ops).Path = path \o "/-" => doc[path] # <<>>
       /\ C10_ValidFrom(applyAdd(doc, Head(ops)), Tail(ops))

C10_Added(ops, path) ==
    LET on == SelectSeq(ops, LAMBDA op : Targets(op, path))
    IN  [k \in 1..Len(on) |-> Element(on[k])]

(* C10: applied in order under RFC 6902 "add", every operation of the      *)
(* returned patch is valid against the document just before it, and        *)
(* afterwards each array field holds its original elements followed by     *)
(* every element the patch added for it.                                   *)
C10_SequentialApplication ==
    pc = "done" =>
        LET before == Document(pod)
            after == applyPatch(before, patchOps)
        IN  /\ C10_ValidFrom(before, patchOps)
            /\ after # Nil
            /\ \A path \in DOMAIN before :
                  after[path] = before[path] \o C10_Added(patchOps, path)

====
